---- MODULE Spec2Model ----
(***************************************************************************)
(* A model of plotly/express/_imshow.py: the two helpers                   *)
(* _vectorize_zvalue and _infer_zmax_from_type, and imshow itself, which   *)
(* picks a heatmap trace or an image trace from the shape of the array,    *)
(* resolves the colour range and the labels and assembles the figure.      *)
(*                                                                         *)
(* Python values are tagged records: None is [t |-> "None"], a number is   *)
(* [t |-> "scalar", v |-> n], a list is [t |-> "list", v |-> <<...>>] and  *)
(* a dict is [t |-> "dict", v |-> f] with f a function on its keys; the    *)
(* elements of a list and the values of a dict are Python values too.      *)
(*                                                                         *)
(* Numbers are exact: a number is the pair <<hi, lo>> that stands for      *)
(* (hi * Base + lo) hundredths, 0 <= lo < Base, so that 0.98, 1.05 * 255   *)
(* and 2 ** 32 are all represented without rounding or overflow.           *)
(***************************************************************************)
EXTENDS Integers, Sequences, FiniteSets, TLC

VARIABLES pc, args, result, labels_default, integer_ranges, calls

vars == <<pc, args, result, labels_default, integer_ranges, calls>>

----------------------------------------------------------------------------
(* Bounds of the model.                                                    *)

\* longest zmin / zmax sequence handed to the functions
MaxLen == 5
\* most dimensions of an image array
MaxNdim == 4
\* largest trailing dimension of an image array
MaxLast == 5
\* floating-point maxima are drawn this many hundredths around each threshold
MaxDelta == 2
\* calls of imshow in one run of the program
MaxCalls == 2

----------------------------------------------------------------------------
(* Exact numbers.                                                          *)

Base == 1024 * 1024

Hund(h) == <<h \div Base, h % Base>>

Num(n) == Hund(100 * n)

Norm(hi, lo) == <<hi + (lo \div Base), lo % Base>>

Add(a, b) == Norm(a[1] + b[1], a[2] + b[2])

Times(a, k) == Norm(a[1] * k, a[2] * k)

Neg(a) == Norm(-a[1], -a[2])

Leq(a, b) == a[1] < b[1] \/ (a[1] = b[1] /\ a[2] <= b[2])

\* 2 ** k hundredths
RECURSIVE Pow2Hund(_)
Pow2Hund(k) == IF k = 0 THEN Hund(1) ELSE Times(Pow2Hund(k - 1), 2)

\* 2 ** k
Pow2(k) == Times(Pow2Hund(k), 100)

\* the largest element of a non-empty set of numbers: ndarray.max()
NumMax(S) == CHOOSE a \in S : \A b \in S : Leq(b, a)

\* the smallest element of a non-empty set of numbers: ndarray.min()
NumMin(S) == CHOOSE a \in S : \A b \in S : Leq(a, b)

----------------------------------------------------------------------------
(* Python values.                                                          *)

None == [t |-> "None"]

Scalar(n) == [t |-> "scalar", v |-> n]

List(s) == [t |-> "list", v |-> s]

Dict(f) == [t |-> "dict", v |-> f]

Bool(b) == [t |-> "bool", v |-> b]

\* a string, as the sequence of its pieces
Str(s) == [t |-> "str", v |-> s]

Text(x) == Str(<<x>>)

EmptyDict == Dict(<<>>)

IsNone(z) == z.t = "None"

\* np.isscalar(z)
isscalar(z) == z.t = "scalar"

Returned(v) == [ok |-> TRUE, v |-> v]

Raised(exc, msg) == [ok |-> FALSE, exc |-> exc, msg |-> msg]

----------------------------------------------------------------------------
(* str(z) of a number or of a list of numbers, as a sequence of            *)
(* characters; the numbers rendered are whole and below Base / 100.        *)

Digit(d) == <<"0", "1", "2", "3", "4", "5", "6", "7", "8", "9">>[d + 1]

RECURSIVE DecStr(_)
DecStr(k) == IF k < 10 THEN <<Digit(k)>> ELSE DecStr(k \div 10) \o <<Digit(k % 10)>>

NumStr(n) == DecStr(n[2] \div 100)

RECURSIVE JoinStr(_)
JoinStr(s) ==
    IF Len(s) = 0 THEN <<>>
    ELSE IF Len(s) = 1 THEN NumStr(s[1].v)
    ELSE NumStr(s[1].v) \o <<",", " ">> \o JoinStr(Tail(s))

str(z) ==
    IF IsNone(z) THEN <<"None">>
    ELSE IF isscalar(z) THEN NumStr(z.v)
    ELSE <<"[">> \o JoinStr(z.v) \o <<"]">>

----------------------------------------------------------------------------
(* _vectorize_zvalue                                                       *)

VectorizeMessage(z) ==
    <<"zmax can be a scalar, or an iterable of length 1, 3 or 4. ", "A value of ">>
        \o str(z) \o <<" was passed for zmax.">>

\* the function without its case for 4 elements
_vectorize_zvalue_no4(z) ==
    IF IsNone(z) THEN Returned(z)
    ELSE IF isscalar(z) THEN Returned(List(<<z, z, z, Scalar(Num(1))>>))
    ELSE IF Len(z.v) = 1 THEN Returned(List(z.v \o z.v \o z.v \o <<Scalar(Num(1))>>))
    ELSE IF Len(z.v) = 3 THEN Returned(List(z.v \o <<Scalar(Num(1))>>))
    ELSE Raised("ValueError", VectorizeMessage(z))

\* the function with 3 elements returned as they are
_vectorize_zvalue_keep3(z) ==
    IF IsNone(z) THEN Returned(z)
    ELSE IF isscalar(z) THEN Returned(List(<<z, z, z, Scalar(Num(1))>>))
    ELSE IF Len(z.v) = 1 THEN Returned(List(z.v \o z.v \o z.v \o <<Scalar(Num(1))>>))
    ELSE IF Len(z.v) \in {3, 4} THEN Returned(z)
    ELSE Raised("ValueError", VectorizeMessage(z))

_vectorize_zvalue(z) ==
    IF IsNone(z) THEN Returned(z)
    ELSE IF isscalar(z) THEN Returned(List(<<z, z, z, Scalar(Num(1))>>))
    ELSE IF Len(z.v) = 1 THEN Returned(List(z.v \o z.v \o z.v \o <<Scalar(Num(1))>>))
    ELSE IF Len(z.v) = 3 THEN Returned(List(z.v \o <<Scalar(Num(1))>>))
    ELSE IF Len(z.v) = 4 THEN Returned(z)
    ELSE Raised("ValueError", VectorizeMessage(z))

----------------------------------------------------------------------------
(* Element types.  An array's element type is the name of its numpy scalar *)
(* type; np.bool is "bool_", np.uint8 is "ubyte", a float is "float64".    *)
(* The four 64-bit entries of _integer_types (int_, uint, longlong,        *)
(* ulonglong) are left out: their bounds exceed the numbers of the model.  *)

_integer_types == <<"byte", "ubyte", "short", "ushort", "intc", "uintc">>

IntegerTypes == {_integer_types[i] : i \in DOMAIN _integer_types}

Bits(t) ==
    CASE t \in {"byte", "ubyte"} -> 8
      [] t \in {"short", "ushort"} -> 16
      [] t \in {"intc", "uintc"} -> 32

Signed(t) == t \in {"byte", "short", "intc"}

\* np.iinfo(t): min and max of an integer type
iinfo(t) ==
    IF Signed(t)
    THEN [min |-> Neg(Pow2(Bits(t) - 1)), max |-> Add(Pow2(Bits(t) - 1), Num(-1))]
    ELSE [min |-> Num(0), max |-> Add(Pow2(Bits(t)), Num(-1))]

\* the table built at import: {t: (np.iinfo(t).min, np.iinfo(t).max) for t in _integer_types}
_integer_ranges == [t \in IntegerTypes |-> <<iinfo(t).min, iinfo(t).max>>]

----------------------------------------------------------------------------
(* Arrays.  An array is its element type, its shape, the set of finite     *)
(* values it holds (vals) and whether it also holds +inf (has_inf).  A     *)
(* labeled array (xarray.DataArray) also carries its dimension names and   *)
(* the label xarray derives from its attributes.                           *)

PosInf == [t |-> "inf"]

ndim(img) == Len(img.shape)

\* the distinct elements of the array
Elements(img) == {Scalar(v) : v \in img.vals} \cup (IF img.has_inf THEN {PosInf} ELSE {})

\* np.isfinite(e)
isfinite(e) == e.t = "scalar"

\* S.max() of a non-empty set of elements
ElemMax(S) == IF PosInf \in S THEN PosInf ELSE Scalar(NumMax({e.v : e \in S}))

\* S.min() of a non-empty set of elements
ElemMin(S) ==
    IF S = {PosInf} THEN PosInf ELSE Scalar(NumMin({e.v : e \in S \ {PosInf}}))

\* img[np.isfinite(img)]
FiniteElements(img) == {e \in Elements(img) : isfinite(e)}

\* img.astype(np.uint8) scaled by 255, for a boolean array
CastBool(img) == [img EXCEPT !.dtype = "ubyte", !.vals = {Times(v, 255) : v \in @}]

\* np.asanyarray(img), then the cast of booleans to uint8
Normalize(img) ==
    LET arr == [img EXCEPT !.is_xarray = FALSE]
    IN  IF arr.dtype = "bool_" THEN CastBool(arr) ELSE arr

----------------------------------------------------------------------------
(* _infer_zmax_from_type                                                   *)

\* rtol = 1.05, in hundredths
Rtol == 105

\* the comparison without the tolerance
LeqNoRtol(im_max, b) ==
    /\ im_max # PosInf
    /\ Leq(im_max.v, b)

\* im_max <= b * rtol
LeqRtol(im_max, b) ==
    /\ im_max # PosInf
    /\ Leq(Times(im_max.v, 100), Times(b, Rtol))

_infer_zmax_from_type(img, ranges) ==
    LET dt == img.dtype
    IN  IF dt \in IntegerTypes
        THEN Returned(Scalar(ranges[dt][2]))
        ELSE IF FiniteElements(img) = {}
             THEN Raised("ValueError",
                         <<"zero-size array to reduction operation maximum which has no identity">>)
             ELSE LET im_max == ElemMax(FiniteElements(img))
                  IN  IF LeqRtol(im_max, Num(1)) THEN Returned(Scalar(Num(1)))
                      ELSE IF LeqRtol(im_max, Num(255)) THEN Returned(Scalar(Num(255)))
                      ELSE IF LeqRtol(im_max, Num(65535)) THEN Returned(Scalar(Num(65535)))
                      ELSE Returned(Scalar(Pow2(32)))

----------------------------------------------------------------------------
(* imshow.  The options that only decorate the figure (title, width,       *)
(* height, template, color_continuous_midpoint) are passed through by the  *)
(* code and are not part of the model.                                     *)

\* a parameter the caller left out
Omitted == [t |-> "omitted"]

\* a local name that was never assigned
Unbound == [t |-> "unbound"]

\* the parameters as bound at entry: an omitted labels is the default object
BindLabels(a, dflt) == IF a.labels = Omitted THEN dflt ELSE a.labels

\* the colour scales the validator knows, among those the model hands in
KnownColorscales == {Text("viridis"), Text("template-sequential")}

\* apply_default_cascade(args): an absent colour scale becomes the template's
apply_default_cascade(a) ==
    [a EXCEPT !.color_continuous_scale = IF IsNone(@) THEN Text("template-sequential") ELSE @]

\* ColorscaleValidator("colorscale", "imshow").validate_coerce(v)
validate_coerce(v) ==
    IF v \in KnownColorscales THEN Returned(v)
    ELSE Raised("ValueError", <<"Invalid value received for the 'colorscale' property of imshow">>)

\* s.replace("\n", "<br>")
Replace(s) == [i \in DOMAIN s |-> IF s[i] = "\n" THEN "<br>" ELSE s[i]]

\* the names read from a labeled array: dims[0], dims[1] and label_from_attrs;
\* for a plain array x_label and y_label stay unassigned and z_name is ""
ArrayNames(img) ==
    IF img.is_xarray
    THEN [x_label |-> Text(img.dims[2]), y_label |-> Text(img.dims[1]),
          z_name |-> Str(Replace(img.label))]
    ELSE [x_label |-> Unbound, y_label |-> Unbound, z_name |-> Str(<<>>)]

\* if labels is not None: the keys x, y and color override the names
OverrideNames(names, labels) ==
    IF IsNone(labels) THEN names
    ELSE [x_label |-> IF "x" \in DOMAIN labels.v THEN labels.v["x"] ELSE names.x_label,
          y_label |-> IF "y" \in DOMAIN labels.v THEN labels.v["y"] ELSE names.y_label,
          z_name |-> IF "color" \in DOMAIN labels.v THEN labels.v["color"] ELSE names.z_name]

\* the names written back into the mapping for the keys it lacks
LabelsFilledInPlace(labels, names) ==
    IF IsNone(labels) THEN labels
    ELSE Dict([k \in DOMAIN labels.v \cup {"color"} |->
                 IF k \in DOMAIN labels.v THEN labels.v[k] ELSE names.z_name])

\* labels is only read (lines 186-192): the object is what it was
LabelsAfterCall(labels, names) == labels

\* aspect defaults to "auto" for a labeled array and to "equal" otherwise
ResolveAspect(aspect, is_xarray) ==
    IF IsNone(aspect) THEN (IF is_xarray THEN Text("auto") ELSE Text("equal")) ELSE aspect

\* bool(v) of None or of a list
Truthy(v) == IF IsNone(v) THEN FALSE ELSE Len(v.v) > 0

\* bounds taken from the element type when neither zmin nor zmax is given
FillRangeFromType(img, zmin, zmax) ==
    IF IsNone(zmin) /\ IsNone(zmax) /\ img.dtype \in IntegerTypes
    THEN [zmin |-> Scalar(_integer_ranges[img.dtype][1]),
          zmax |-> Scalar(_integer_ranges[img.dtype][2])]
    ELSE [zmin |-> IF IsNone(zmin) /\ ~IsNone(zmax) THEN ElemMin(Elements(img)) ELSE zmin,
          zmax |-> IF IsNone(zmax) /\ ~IsNone(zmin) THEN ElemMax(Elements(img)) ELSE zmax]

\* zmin, zmax after lines 213-216
FillRange(img, zmin, zmax) ==
    LET zmax1 == IF ~IsNone(zmin) /\ IsNone(zmax) THEN ElemMax(Elements(img)) ELSE zmax
        zmin1 == IF ~IsNone(zmax1) /\ IsNone(zmin) THEN ElemMin(Elements(img)) ELSE zmin
    IN  [zmin |-> zmin1, zmax |-> zmax1]

\* zmin and zmax taken before range_color
ResolveRangeColorLast(range_color, zmin, zmax) ==
    IF ~IsNone(zmin) \/ ~IsNone(zmax) \/ ~Truthy(range_color)
    THEN List(<<zmin, zmax>>)
    ELSE range_color

\* range_color = range_color or [zmin, zmax]
ResolveRangeColor(range_color, zmin, zmax) ==
    IF Truthy(range_color) THEN range_color ELSE List(<<zmin, zmax>>)

\* the test turned round: reversed only for "upper"
HeatmapAutorangeUpper(origin) == IF origin = Text("upper") THEN Text("reversed") ELSE Bool(TRUE)

\* autorange = True if origin == "lower" else "reversed"
HeatmapAutorange(origin) == IF origin = Text("lower") THEN Bool(TRUE) ELSE Text("reversed")

\* the layout of the 2d branch, lines 207-226
HeatmapLayout(img, a, aspect, z_name, colorscale) ==
    LET z == FillRange(img, a.zmin, a.zmax)
        range_color == ResolveRangeColor(a.range_color, z.zmin, z.zmax)
        equal == aspect = Text("equal")
        yaxis == IF equal
                 THEN ("autorange" :> HeatmapAutorange(a.origin)) @@ ("constrain" :> Text("domain"))
                 ELSE ("autorange" :> HeatmapAutorange(a.origin))
        coloraxis1 == [colorscale |-> colorscale,
                       cmin |-> range_color.v[1],
                       cmax |-> range_color.v[2],
                       colorbar |-> [title |-> z_name]]
        base == ("yaxis" :> Dict(yaxis)) @@ ("coloraxis1" :> coloraxis1)
    IN  IF equal
        THEN base @@ ("xaxis" :> Dict(("scaleanchor" :> Text("y")) @@ ("constrain" :> Text("domain"))))
        ELSE base

\* the dtype object of an array and the scalar type np.uint8
DtypeOf(img) == [obj |-> "numpy.dtype", type |-> img.dtype]

np_uint8 == [obj |-> "type", name |-> "ubyte"]

\* a is not b: the two are not one and the same object
IsNot(a, b) == a # b

\* if zmax is None and img.dtype is not np.uint8: whether zmax is inferred
InfersZmax(img, zmax) == IsNone(zmax) /\ IsNot(DtypeOf(img), np_uint8)

\* layout of the image branch, lines 234-236
ImageLayout(origin) ==
    IF origin = Text("lower") THEN ("yaxis" :> Dict(("autorange" :> Bool(TRUE)))) ELSE <<>>

ShapeStr(shape) ==
    <<"(">> \o JoinStr([i \in DOMAIN shape |-> Scalar(Num(shape[i]))])
        \o (IF Len(shape) = 1 THEN <<",">> ELSE <<>>) \o <<")">>

ShapeMessage(shape) ==
    <<"px.imshow only accepts 2D single-channel, RGB or RGBA images. ",
      "An image of shape ">> \o ShapeStr(shape) \o <<" was provided">>

\* lines 249-265: the figure, with axis titles and hover text for a labeled array
Figure(trace, layout, is_xarray, img, names) ==
    [data |-> <<trace>>,
     layout |-> layout,
     xaxis_title |-> IF is_xarray THEN names.x_label ELSE None,
     yaxis_title |-> IF is_xarray THEN names.y_label ELSE None,
     hovertemplate |->
        IF is_xarray /\ ndim(img) <= 2
        THEN Str(names.x_label.v \o <<": %{x} <br>">> \o names.y_label.v
                 \o <<": %{y} <br>">> \o names.z_name.v \o <<" : %{z}<extra></extra>">>)
        ELSE None]

\* the 2d branch
HeatmapBranch(img, a, is_xarray, aspect, names) ==
    LET cs == validate_coerce(apply_default_cascade(a).color_continuous_scale)
        trace == [type |-> "heatmap", z |-> img, coloraxis |-> "coloraxis1"]
    IN  IF ~cs.ok THEN cs
        ELSE Returned(Figure(trace, HeatmapLayout(img, a, aspect, names.z_name, cs.v),
                             is_xarray, img, names))

\* the 2d + RGB branch
ImageBranch(img, a, is_xarray, names, ranges) ==
    LET inferred == IF InfersZmax(img, a.zmax)
                    THEN _infer_zmax_from_type(img, ranges)
                    ELSE Returned(a.zmax)
        zmin == _vectorize_zvalue(a.zmin)
        zmax == _vectorize_zvalue(inferred.v)
    IN  IF ~inferred.ok THEN inferred
        ELSE IF ~zmin.ok THEN zmin
        ELSE IF ~zmax.ok THEN zmax
        ELSE Returned(Figure([type |-> "image", z |-> img, zmin |-> zmin.v, zmax |-> zmax.v],
                             ImageLayout(a.origin), is_xarray, img, names))

\* the test without its check of the last dimension
IsMultichannelAnyDepth(img) == ndim(img) = 3

\* elif img.ndim == 3 and img.shape[-1] in [3, 4]
IsMultichannel(img) == ndim(img) = 3 /\ img.shape[Len(img.shape)] \in {3, 4}

\* imshow(img, zmin, zmax, origin, labels, ...): the figure returned or the error raised
imshow(a, dflt, ranges) ==
    IF a.img.is_xarray /\ Len(a.img.dims) < 2
    THEN Raised("IndexError", <<"tuple index out of range">>)
    ELSE LET is_xarray == a.img.is_xarray
             names == OverrideNames(ArrayNames(a.img), BindLabels(a, dflt))
             aspect == ResolveAspect(a.aspect, is_xarray)
             img == Normalize(a.img)
         IN  IF ndim(img) = 2
             THEN HeatmapBranch(img, a, is_xarray, aspect, names)
             ELSE IF IsMultichannel(img)
             THEN ImageBranch(img, a, is_xarray, names, ranges)
             ELSE Raised("ValueError", ShapeMessage(img.shape))

----------------------------------------------------------------------------
(* The inputs the model hands to the functions.                            *)

\* n * rtol for a whole number n
TimesRtol(n) == Times(Hund(n), Rtol)

\* the three bounds the code compares with, and 2 ** 32 * rtol
Thresholds ==
    {TimesRtol(1), TimesRtol(255), TimesRtol(65535), Times(Pow2Hund(32), Rtol)}

FloatMaxima ==
    {Add(th, Hund(d)) : th \in Thresholds, d \in (0 - MaxDelta)..MaxDelta}
        \cup {Hund(98), Num(200)}

ZElems == {Scalar(Num(1)), Scalar(Num(7))}

\* None, scalars and every list of up to MaxLen elements
VecInputs ==
    {None, Scalar(Num(0)), Scalar(Num(5))}
        \cup {List(s) : s \in UNION {[1..n -> ZElems] : n \in 0..MaxLen}}

\* None, a scalar and one list of each length up to MaxLen
ZSmall == {None, Scalar(Num(5))} \cup {List([i \in 1..n |-> Scalar(Num(i))]) : n \in 0..MaxLen}

\* what an array holds: element type, finite values, whether +inf occurs
Contents ==
    {[dtype |-> "bool_", vals |-> {Num(0), Num(1)}, has_inf |-> FALSE],
     [dtype |-> "ubyte", vals |-> {Num(0), Num(200)}, has_inf |-> FALSE],
     [dtype |-> "ushort", vals |-> {Num(3), Num(1000)}, has_inf |-> FALSE],
     [dtype |-> "intc", vals |-> {Num(5)}, has_inf |-> FALSE],
     [dtype |-> "float64", vals |-> {Hund(98), Hund(25)}, has_inf |-> FALSE],
     [dtype |-> "float64", vals |-> {Num(200)}, has_inf |-> TRUE],
     [dtype |-> "float64", vals |-> {}, has_inf |-> TRUE]}

InferContents ==
    {[dtype |-> dt, vals |-> {Num(5)}, has_inf |-> FALSE] : dt \in IntegerTypes}
        \cup {[dtype |-> "float64", vals |-> {m} \cup low, has_inf |-> inf] :
                m \in FloatMaxima, low \in {{}, {Num(0)}}, inf \in BOOLEAN}
        \cup {[dtype |-> "float64", vals |-> {}, has_inf |-> TRUE]}

ShapeOf(n, last) == [i \in 1..n |-> IF i = n THEN last ELSE 2]

Shapes == {ShapeOf(n, last) : n \in 1..MaxNdim, last \in 1..MaxLast}

DimName(i) == <<"dim_0", "dim_1", "dim_2", "dim_3", "dim_4", "dim_5", "dim_6", "dim_7">>[i]

Array(c, shape, is_xarray, label) ==
    [dtype |-> c.dtype, vals |-> c.vals, has_inf |-> c.has_inf, shape |-> shape,
     is_xarray |-> is_xarray,
     dims |-> IF is_xarray THEN [i \in 1..Len(shape) |-> DimName(i)] ELSE <<>>,
     label |-> IF is_xarray THEN label ELSE <<>>]

PlainContent == [dtype |-> "ubyte", vals |-> {Num(0), Num(200)}, has_inf |-> FALSE]

DefaultArgs ==
    [img |-> Array(PlainContent, <<2, 2>>, FALSE, <<>>),
     zmin |-> None, zmax |-> None, origin |-> None, labels |-> Omitted,
     color_continuous_scale |-> None, range_color |-> None, aspect |-> None]

ShapeSlice ==
    {[DefaultArgs EXCEPT !.img = Array(c, sh, x, <<>>), !.color_continuous_scale = cs] :
        c \in Contents, sh \in Shapes, x \in BOOLEAN,
        cs \in {None, Text("viridis"), Text("bogus")}}

RangeSlice ==
    {[DefaultArgs EXCEPT !.img = Array(c, <<2, 2>>, FALSE, <<>>),
                         !.zmin = lo, !.zmax = hi, !.range_color = rc] :
        c \in Contents,
        lo \in {None, Scalar(Num(0)), Scalar(Num(10))},
        hi \in {None, Scalar(Num(0)), Scalar(Num(10))},
        rc \in {None, List(<<>>), List(<<Scalar(Num(1)), Scalar(Num(7))>>)}}

MultiSlice ==
    {[DefaultArgs EXCEPT !.img = Array(c, ShapeOf(3, last), FALSE, <<>>),
                         !.zmin = lo, !.zmax = hi] :
        c \in Contents, last \in {3, 4}, lo \in ZSmall, hi \in ZSmall}

OriginSlice ==
    {[DefaultArgs EXCEPT !.img = Array(PlainContent, sh, x, <<>>),
                         !.origin = o, !.aspect = asp] :
        sh \in Shapes, x \in BOOLEAN,
        o \in {None, Text("upper"), Text("lower")},
        asp \in {None, Text("equal"), Text("auto")}}

LabelKeys == {"x", "y", "color"}

LabelValue(k) == Str(<<"label of ", k>>)

LabelsInputs ==
    {Omitted, None} \cup {Dict([k \in ks |-> LabelValue(k)]) : ks \in SUBSET LabelKeys}

LabelsSlice ==
    {[DefaultArgs EXCEPT !.img = Array(PlainContent, sh, x, lbl), !.labels = l] :
        sh \in {<<2>>, <<2, 2>>, <<2, 2, 2>>, <<2, 2, 3>>}, x \in BOOLEAN,
        lbl \in {<<>>, <<"temperature", "\n", "[K]">>},
        l \in LabelsInputs}

ImshowArgs == ShapeSlice \cup RangeSlice \cup MultiSlice \cup OriginSlice \cup LabelsSlice

----------------------------------------------------------------------------
(* The module as a program: callers call imshow again and again.  The      *)
(* state shared between calls is the default of the labels parameter and   *)
(* the table _integer_ranges.                                              *)

Init ==
    /\ pc = "idle"
    /\ args = None
    /\ result = None
    /\ labels_default = EmptyDict
    /\ integer_ranges = _integer_ranges
    /\ calls = 0

\* a caller calls imshow with the arguments a
Call(a) ==
    /\ pc = "idle"
    /\ calls < MaxCalls
    /\ pc' = "called"
    /\ args' = a
    /\ calls' = calls + 1
    /\ UNCHANGED <<result, labels_default, integer_ranges>>

\* the default labels object after the call
DefaultLabelsAfter(a, dflt) ==
    IF a.labels = Omitted /\ ~(a.img.is_xarray /\ Len(a.img.dims) < 2)
    THEN LabelsAfterCall(dflt, OverrideNames(ArrayNames(a.img), dflt))
    ELSE dflt

\* the body of imshow, from entry to return or raise
Imshow ==
    /\ pc = "called"
    /\ pc' = "returned"
    /\ result' = imshow(args, labels_default, integer_ranges)
    /\ labels_default' = DefaultLabelsAfter(args, labels_default)
    /\ UNCHANGED <<args, integer_ranges, calls>>

\* the caller takes the figure, or the error, and owns it from then on
Return ==
    /\ pc = "returned"
    /\ pc' = "idle"
    /\ args' = None
    /\ result' = None
    /\ UNCHANGED <<labels_default, integer_ranges, calls>>

Next ==
    \/ \E a \in ImshowArgs : Call(a)
    \/ Imshow
    \/ Return

Spec == Init /\ [][Next]_vars

----------------------------------------------------------------------------
(* _vectorize_zvalue on its own.                                           *)

VecInit ==
    /\ pc = "vec_called"
    /\ args \in {[z |-> z] : z \in VecInputs}
    /\ result = None
    /\ labels_default = EmptyDict
    /\ integer_ranges = _integer_ranges
    /\ calls = 0

Vectorize ==
    /\ pc = "vec_called"
    /\ pc' = "vec_done"
    /\ result' = _vectorize_zvalue(args.z)
    /\ UNCHANGED <<args, labels_default, integer_ranges, calls>>

SpecVectorize == VecInit /\ [][Vectorize]_vars

----------------------------------------------------------------------------
(* _infer_zmax_from_type on its own.                                       *)

InferInit ==
    /\ pc = "infer_called"
    /\ args \in {[img |-> Array(c, <<2, 2, 3>>, FALSE, <<>>)] : c \in InferContents}
    /\ result = None
    /\ labels_default = EmptyDict
    /\ integer_ranges = _integer_ranges
    /\ calls = 0

Infer ==
    /\ pc = "infer_called"
    /\ pc' = "infer_done"
    /\ result' = _infer_zmax_from_type(args.img, integer_ranges)
    /\ UNCHANGED <<args, labels_default, integer_ranges, calls>>

SpecInfer == InferInit /\ [][Infer]_vars

----------------------------------------------------------------------------
(* What the claims speak of.                                               *)

Given(z) == ~IsNone(z)

\* the figure of a call that returned, and its only trace
Fig == result.v

Trace == result.v.data[1]

OneTrace(type) == result.ok /\ Len(result.v.data) = 1 /\ result.v.data[1].type = type

RaisesValueError == ~result.ok /\ result.exc = "ValueError"

Is2d == Len(args.img.shape) = 2

Is3dRgb == Len(args.img.shape) = 3 /\ args.img.shape[3] \in {3, 4}

\* a zmin or zmax that is absent, a scalar, or a sequence of 1, 3 or 4 elements
Vectorizable(z) == IsNone(z) \/ isscalar(z) \/ Len(z.v) \in {1, 3, 4}

\* zmax is to be inferred from floating-point data without a finite element
NoFiniteToInfer ==
    /\ IsNone(args.zmax)
    /\ args.img.dtype = "float64"
    /\ args.img.vals = {}

\* the colour scale is one the validator rejects
ColorscaleRejected ==
    /\ Given(args.color_continuous_scale)
    /\ args.color_continuous_scale \notin KnownColorscales

\* the minimum and the maximum of the array once booleans are 0 and 255
DataMax == ElemMax(Elements(Normalize(args.img)))

DataMin == ElemMin(Elements(Normalize(args.img)))

ColorRange == <<Fig.layout["coloraxis1"].cmin, Fig.layout["coloraxis1"].cmax>>

RangeColorPair == <<args.range_color.v[1], args.range_color.v[2]>>

\* zmin and zmax, a missing one filled from the data when the other is given
FilledRange ==
    IF Given(args.zmin) /\ Given(args.zmax) THEN <<args.zmin, args.zmax>>
    ELSE IF Given(args.zmin) THEN <<args.zmin, DataMax>>
    ELSE IF Given(args.zmax) THEN <<DataMin, args.zmax>>
    ELSE <<None, None>>

----------------------------------------------------------------------------
C2_ZRangeBeforeRangeColor ==
    (pc = "returned" /\ Is2d /\ result.ok) =>
        ColorRange = IF Given(args.zmin) \/ Given(args.zmax) THEN FilledRange
                     ELSE IF Truthy(args.range_color) THEN RangeColorPair
                     ELSE <<None, None>>

(* C2, amended: for a 2-dimensional image a non-empty range_color is used  *)
(* whenever it is given, whatever zmin and zmax are; without it, zmin and  *)
(* zmax are used when both are given, the missing one is filled from the   *)
(* array's minimum or maximum when only one is given, and both ends are    *)
(* unset when neither is given.                                            *)
C2_RangeColorFirst ==
    (pc = "returned" /\ Is2d /\ result.ok) =>
        ColorRange = IF Truthy(args.range_color) THEN RangeColorPair ELSE FilledRange

\* zmin, zmax and range_color were all given and range_color won
C2_Witness ==
    /\ pc = "returned"
    /\ Is2d
    /\ result.ok
    /\ Given(args.zmin)
    /\ Given(args.zmax)
    /\ Truthy(args.range_color)
    /\ ColorRange = RangeColorPair
    /\ ColorRange # <<args.zmin, args.zmax>>

----------------------------------------------------------------------------
\* a sequence of exactly four elements
Is4Vector(z) == z.t = "list" /\ Len(z.v) = 4

\* sub occurs in msg as a run of consecutive pieces
Contains(msg, sub) ==
    \E i \in 0..(Len(msg) - Len(sub)) : SubSeq(msg, i + 1, i + Len(sub)) = sub

One == Scalar(Num(1))

(* C3: for a 3- or 4-channel array of 8-bit unsigned elements with zmax    *)
(* not given, no zmax is inferred and the image trace is built with zmax   *)
(* left as None.                                                           *)
C3_NoInferenceForUint8 ==
    (/\ pc = "returned"
     /\ Is3dRgb
     /\ args.img.dtype = "ubyte"
     /\ IsNone(args.zmax)
     /\ result.ok) => IsNone(Trace.zmax)

(* C4: _vectorize_zvalue maps a scalar z to [z, z, z, 1], [a] to           *)
(* [a, a, a, 1], [a, b, c] to [a, b, c, 1], returns a 4-element sequence   *)
(* unchanged and raises ValueError for a sequence of any other length,     *)
(* with the offending value in the message.                                *)
C4_Vectorize ==
    pc = "vec_done" =>
        LET z == args.z
        IN  /\ isscalar(z) => result = Returned(List(<<z, z, z, One>>))
            /\ (z.t = "list" /\ Len(z.v) = 1) =>
                    result = Returned(List(<<z.v[1], z.v[1], z.v[1], One>>))
            /\ (z.t = "list" /\ Len(z.v) = 3) =>
                    result = Returned(List(<<z.v[1], z.v[2], z.v[3], One>>))
            /\ (z.t = "list" /\ Len(z.v) = 4) => result = Returned(z)
            /\ (z.t = "list" /\ Len(z.v) \notin {1, 3, 4}) =>
                    /\ ~result.ok
                    /\ result.exc = "ValueError"
                    /\ Contains(result.msg, str(z))

\* [1, 7] was refused, and the message holds "[1, 7]"
C4_Witness ==
    /\ pc = "vec_done"
    /\ args.z = List(<<Scalar(Num(1)), Scalar(Num(7))>>)
    /\ ~result.ok
    /\ Contains(result.msg, <<"[", "1", ",", " ", "7", "]">>)

FiniteMax == NumMax(args.img.vals)

TwoTo32 == Pow2(32)

Buckets == {Num(1), Num(255), Num(65535), TwoTo32}

\* m <= 1.05 * b
WithinTolerance(m, b) == Leq(Times(m, 100), Times(b, 105))

\* b is the smallest bucket that holds m within the tolerance
SmallestBucket(m, b) ==
    /\ b \in Buckets
    /\ WithinTolerance(m, b)
    /\ \A c \in Buckets : WithinTolerance(m, c) => Leq(b, c)

IsFloatWithFinite == args.img.dtype = "float64" /\ args.img.vals # {}

----------------------------------------------------------------------------
Lower == Text("lower")

BoundLabels == BindLabels(args, labels_default)

(* C9: the labels mapping overrides the names of the figure key by key,    *)
(* for a plain array as well as for a labeled array: with key "x" the      *)
(* x-axis title is labels["x"], with key "y" the y-axis title is           *)
(* labels["y"], and with key "color" the colorbar title of a 2-dimensional *)
(* image is labels["color"].                                               *)
C9_LabelsOverrideTitles ==
    (pc = "returned" /\ result.ok /\ BoundLabels.t = "dict") =>
        /\ "x" \in DOMAIN BoundLabels.v => Fig.xaxis_title = BoundLabels.v["x"]
        /\ "y" \in DOMAIN BoundLabels.v => Fig.yaxis_title = BoundLabels.v["y"]
        /\ ("color" \in DOMAIN BoundLabels.v /\ Is2d) =>
              Fig.layout["coloraxis1"].colorbar.title = BoundLabels.v["color"]

(* C10: after any sequence of calls, successful or failing, the state      *)
(* shared between calls is unchanged: the default labels mapping is still  *)
(* empty and the integer range table is what it was at import, so that a   *)
(* call's outcome is the one its arguments give on a fresh module.         *)
C10_SharedStateUnchanged ==
    /\ labels_default = EmptyDict
    /\ integer_ranges = _integer_ranges
    /\ pc = "returned" => result = imshow(args, EmptyDict, _integer_ranges)

\* a second call, with labels left to the default, after a first one
C10_Witness ==
    /\ pc = "returned"
    /\ calls = 2
    /\ args.labels = Omitted
    /\ result.ok
    /\ labels_default = EmptyDict

====
